---- MODULE Spec2Model ----
(***************************************************************************)
(* A model of tinta (brandonscript/tinta): the Tinta builder, its Styler   *)
(* and Part records, the boundary stitching of stylize, the plaintext and  *)
(* styled rendering of to_str, and the strip_ansi utility.                 *)
(*                                                                         *)
(* A Python str is a sequence of one-character strings.  ESC stands for    *)
(* the character \x1b and LF for os.linesep.  An Optional value is a       *)
(* sequence of length zero (None) or one.                                  *)
(***************************************************************************)
EXTENDS Integers, Sequences, FiniteSets

VARIABLES
    parts,              \* Tinta._parts
    styler,             \* Tinta._styler
    prefixes,           \* Tinta._prefixes
    dict_colors,        \* AnsiColors._dict_colors
    colors_ini,         \* ansi.colors_ini: the [colors] section of the parser
    ansi,               \* AnsiColors._initialized and AnsiColors._colors_ini_path
    given,              \* the str handed to strip_ansi, ljust or rjust
    STEALTH,            \* constants.STEALTH
    PREFER_PLAINTEXT,   \* constants.PREFER_PLAINTEXT
    out,                \* what the last call wrote to the output sink
    op,                 \* the last call and its outcome
    added,              \* added[k]: to_str(plaintext=True) when part k was appended
    other               \* a second Tinta instance: its _parts, _styler, _prefixes

vars ==
    <<parts, styler, prefixes, dict_colors, colors_ini, ansi, given, STEALTH,
      PREFER_PLAINTEXT, out, op, added, other>>

----------------------------------------------------------------------------
(* Bounds of the model *)

MaxParts == 3

----------------------------------------------------------------------------
(* Characters and strings *)

ESC == "ESC"
LF == "\n"
None == <<>>
Some(x) == <<x>>

\* str.strip() / str.rstrip() whitespace
Whitespace == {" ", LF, "\t", "\r"}

DigitChars == <<"0", "1", "2", "3", "4", "5", "6", "7", "8", "9">>

Max(S) == CHOOSE x \in S : \A y \in S : y <= x
Min(a, b) == IF a < b THEN a ELSE b

\* str(n) for an int n >= 0
RECURSIVE IntStr(_)
IntStr(n) ==
    IF n < 10 THEN <<DigitChars[n + 1]>>
    ELSE IntStr(n \div 10) \o <<DigitChars[(n % 10) + 1]>>

DigitVal(c) == (CHOOSE i \in 1..10 : DigitChars[i] = c) - 1
IsDigit(c) == \E i \in 1..10 : DigitChars[i] = c

\* int(s) for a str of decimal digits
RECURSIVE StrInt(_)
StrInt(s) ==
    IF s = <<>> THEN 0
    ELSE 10 * StrInt(SubSeq(s, 1, Len(s) - 1)) + DigitVal(s[Len(s)])

\* sep.join(xs)
RECURSIVE StrJoin(_, _)
StrJoin(xs, sep) ==
    IF xs = <<>> THEN <<>>
    ELSE IF Len(xs) = 1 THEN xs[1]
    ELSE xs[1] \o sep \o StrJoin(Tail(xs), sep)

\* "".join(xs)
RECURSIVE Flatten(_)
Flatten(xs) == IF xs = <<>> THEN <<>> ELSE xs[1] \o Flatten(Tail(xs))

\* s.strip(chars)
StrStrip(s, chars) ==
    LET keep == {i \in 1..Len(s) : s[i] \notin chars}
    IN  IF keep = {} THEN <<>>
        ELSE SubSeq(s, CHOOSE i \in keep : \A j \in keep : i <= j, Max(keep))

\* len(s.rstrip())
RstripLen(s) ==
    LET keep == {i \in 1..Len(s) : s[i] \notin Whitespace}
    IN  IF keep = {} THEN 0 ELSE Max(keep)

StartsWith(s, p) == Len(s) >= Len(p) /\ SubSeq(s, 1, Len(p)) = p
EndsWith(s, p) == Len(s) >= Len(p) /\ SubSeq(s, Len(s) - Len(p) + 1, Len(s)) = p

\* s.split(c) for a one-character separator c
RECURSIVE StrSplit(_, _)
StrSplit(s, c) ==
    LET at == {i \in 1..Len(s) : s[i] = c}
    IN  IF at = {} THEN <<s>>
        ELSE LET i == CHOOSE k \in at : \A j \in at : k <= j
             IN  <<SubSeq(s, 1, i - 1)>> \o StrSplit(SubSeq(s, i + 1, Len(s)), c)

\* the members of a set of integers in ascending order: sorted(set(...))
RECURSIVE Sorted(_)
Sorted(S) ==
    IF S = {} THEN <<>>
    ELSE LET m == CHOOSE x \in S : \A y \in S : x <= y
         IN  <<m>> \o Sorted(S \ {m})

----------------------------------------------------------------------------
(* constants.py *)

ANSI_RESET == <<ESC, "[", "0", "m">>
SEP == <<" ">>
SMART_FIX_PUNCTUATION == TRUE
ANSI_STYLES ==
    <<"bold", "dim", "italic", "underline", "blink", "rapid_blink", "invert",
      "conceal", "strikethrough">>
PUNC == {".", ",", ";", ":", "!", "?"}

\* ANSI_STYLES_OFF, as _style_codes reads it: the off code of a style name,
\* 0 for a name that has no entry
StyleOff(st) ==
    CASE st \in {"bold", "dim"} -> 22
      [] st = "italic" -> 23
      [] st = "underline" -> 24
      [] st = "invert" -> 27
      [] st = "strikethrough" -> 29
      [] OTHER -> 0

\* _style_codes(style)[0]: ANSI_STYLES.index(style) + 1
StyleOn(st) == CHOOSE i \in 1..Len(ANSI_STYLES) : ANSI_STYLES[i] = st

----------------------------------------------------------------------------
(* ansi.py: the colour registry, an ordered mapping name -> code *)

DEFAULT_NAME == <<"d", "e", "f", "a", "u", "l", "t">>
UNDEFINED_NAME == <<"[", "u", "n", "d", "e", "f", "i", "n", "e", "d", " ", "c", "o", "l", "o", "r", "]">>
RED_NAME == <<"r", "e", "d">>
GREEN_NAME == <<"g", "r", "e", "e", "n">>
SPARKLE_NAME == <<"s", "p", "a", "r", "k", "l", "e">>

\* the registry the tests load (examples/colors.ini), as far as the tests name it
DefaultColors == << [k |-> RED_NAME, v |-> 1], [k |-> GREEN_NAME, v |-> 35] >>

\* a colour argument: a str (isstr) or an int
StrColor(s) == [isstr |-> TRUE, s |-> s, i |-> 0]
IntColor(i) == [isstr |-> FALSE, s |-> <<>>, i |-> i]

Ok(v) == [exc |-> "", v |-> v]
Raise(e) == [exc |-> e, v |-> 0]
\* the exception e raised, leaving x
RaiseAt(e, x) == [exc |-> e, v |-> x]

is_ansi_str(s) == StartsWith(s, <<ESC, "[">>)

ansi_color_to_int(s) ==
    IF ~is_ansi_str(s) THEN Raise("ValueError")
    ELSE LET s1 == SubSeq(s, 3, Len(s))
             s2 == IF EndsWith(s1, <<"m">>) THEN SubSeq(s1, 1, Len(s1) - 1) ELSE s1
             seg == StrSplit(s2, ";")
             last == seg[Len(seg)]
         IN  IF Len(seg) >= 3 /\ last # <<>> /\ \A i \in 1..Len(last) : IsDigit(last[i])
             THEN Ok(StrInt(last))
             ELSE Raise("ValueError")

HasKey(reg, name) == \E i \in 1..Len(reg) : reg[i].k = name
Lookup(reg, name) == reg[CHOOSE i \in 1..Len(reg) : reg[i].k = name].v

\* AnsiColors.get
get(reg, color) ==
    IF color = DEFAULT_NAME THEN Ok(0)
    ELSE IF is_ansi_str(color) THEN ansi_color_to_int(color)
    ELSE IF ~HasKey(reg, color) THEN Raise("MissingColorError")
    ELSE Ok(Lookup(reg, color))

\* AnsiColors.reverse_get
reverse_get(reg, code, ignore_errors) ==
    IF code = 0 THEN Ok(DEFAULT_NAME)
    ELSE LET hits == {i \in 1..Len(reg) : reg[i].v = code}
         IN  IF hits # {}
             THEN Ok(reg[CHOOSE i \in hits : \A j \in hits : i <= j].k)
             ELSE IF ~ignore_errors THEN Raise("MissingColorError")
             ELSE Ok(UNDEFINED_NAME)

----------------------------------------------------------------------------
(* ansi.py: loading a colour source.  A source is a file with a [colors]   *)
(* section; a parser section and a source are sequences of options          *)
(* [k |-> name, v |-> the value as written], in file order                  *)

GRAY_NAME == <<"g", "r", "a", "y">>
GREY_NAME == <<"g", "r", "e", "y">>
DGRAY_NAME == <<"d", "g", "r", "a", "y">>
DGREY_NAME == <<"d", "g", "r", "e", "y">>
PRINT_NAME == <<"p", "r", "i", "n", "t">>
DRAGON_NAME == <<"d", "r", "a", "g", "o", "n">>

Option(k, v) == [k |-> k, v |-> v]

\* the source behind DefaultColors
DefaultIni == << Option(RED_NAME, <<"1">>), Option(GREEN_NAME, <<"3", "5">>) >>

\* the paths a caller passes and what the file system holds there: a file
\* with its options, a directory with or without a colors.ini, or nothing
DEFAULT_PATH == "colors.ini"

File(opts) == [exists |-> TRUE, is_dir |-> FALSE, has_ini |-> FALSE, opts |-> opts]
Dir(has_ini, opts) ==
    [exists |-> TRUE, is_dir |-> TRUE, has_ini |-> has_ini, opts |-> opts]
NoFile == [exists |-> FALSE, is_dir |-> FALSE, has_ini |-> FALSE, opts |-> <<>>]

Paths ==
    {DEFAULT_PATH, "alt.ini", "gray.ini", "gray7.ini", "both.ini", "bad.ini",
     "print.ini", "dir", "emptydir", "nope.ini"}

FileSystem(path) ==
    CASE path = DEFAULT_PATH -> File(DefaultIni)
      [] path = "alt.ini" ->
            File(<< Option(SPARKLE_NAME, <<"1", "9", "5">>),
                    Option(DRAGON_NAME, <<"2", "0", "2">>) >>)
      [] path = "gray.ini" -> File(<< Option(GRAY_NAME, <<"5">>) >>)
      [] path = "gray7.ini" -> File(<< Option(GRAY_NAME, <<"7">>) >>)
      [] path = "both.ini" ->
            File(<< Option(DGREY_NAME, <<"9">>), Option(DGRAY_NAME, <<"8">>) >>)
      [] path = "bad.ini" ->
            File(<< Option(SPARKLE_NAME, <<"1", "2">>), Option(RED_NAME, <<"x">>) >>)
      [] path = "print.ini" -> File(<< Option(PRINT_NAME, <<"5">>) >>)
      [] path = "dir" -> Dir(TRUE, << Option(GREY_NAME, <<"4">>) >>)
      [] path = "emptydir" -> Dir(FALSE, <<>>)
      [] OTHER -> NoFile

\* the colors.ini of the working directory and of sys.path[0]: there is none
CwdIni == NoFile

\* _check_path: the file to read, or FileNotFoundError
_check_path(path) ==
    LET f == FileSystem(path)
    IN  IF ~f.exists THEN Raise("FileNotFoundError")
        ELSE IF ~f.is_dir THEN Ok(f)
        ELSE IF f.has_ini THEN Ok(File(f.opts))
        ELSE IF CwdIni.exists THEN Ok(CwdIni)
        ELSE Raise("FileNotFoundError")

\* the position of the first occurrence of sub in s at or after i, 0 for none
Find(s, sub, i) ==
    LET at == {k \in i..(Len(s) - Len(sub) + 1) :
                    SubSeq(s, k, k + Len(sub) - 1) = sub}
    IN  IF at = {} THEN 0 ELSE CHOOSE k \in at : \A x \in at : k <= x

\* sub in s
Contains(s, sub) == Find(s, sub, 1) > 0

\* s.replace(old, new)
RECURSIVE Replace(_, _, _)
Replace(s, old, new) ==
    LET k == Find(s, old, 1)
    IN  IF k = 0 THEN s
        ELSE SubSeq(s, 1, k - 1) \o new
                \o Replace(SubSeq(s, k + Len(old), Len(s)), old, new)

\* section[k] = v: an option keeps its place, a new one goes last
RECURSIVE SetOption(_, _, _)
SetOption(sec, k, v) ==
    IF sec = <<>> THEN << Option(k, v) >>
    ELSE IF sec[1].k = k THEN << Option(k, v) >> \o Tail(sec)
    ELSE << sec[1] >> \o SetOption(Tail(sec), k, v)

\* ConfigParser.read: the options of the file are set in the section that the
\* parser already holds
RECURSIVE read(_, _)
read(sec, opts) ==
    IF opts = <<>> THEN sec
    ELSE read(SetOption(sec, opts[1].k, opts[1].v), Tail(opts))

\* int(v) succeeds (the sources hold digits or letters)
IsInt(v) == v # <<>> /\ \A i \in 1..Len(v) : IsDigit(v[i])

\* the state of the loader: the parser's section and AnsiColors._dict_colors
Loader(sec, dict) == [colors_ini |-> sec, dict_colors |-> dict]

\* _alias_keys: the keys are those of the section when the loop starts
RECURSIVE AliasFrom(_, _, _, _)
AliasFrom(ld, keys, search, repl) ==
    IF keys = <<>> THEN ld
    ELSE LET k == keys[1]
             alias_key == Replace(k, search, repl)
             v == Lookup(ld.colors_ini, k)
         IN  IF /\ Contains(k, search)
                /\ ~HasKey(ld.colors_ini, alias_key)
                /\ ~HasKey(ld.dict_colors, alias_key)
             THEN AliasFrom(Loader(SetOption(ld.colors_ini, alias_key, v),
                                   SetOption(ld.dict_colors, alias_key, StrInt(v))),
                            Tail(keys), search, repl)
             ELSE AliasFrom(ld, Tail(keys), search, repl)

_alias_keys(ld, search, repl) ==
    AliasFrom(ld, [i \in 1..Len(ld.colors_ini) |-> ld.colors_ini[i].k], search, repl)

\* a load that stores the options it could convert before it fails
load_colors_Partial(ld, opts) ==
    LET sec == read(ld.colors_ini, opts)
        good == SelectSeq(sec, LAMBDA o : IsInt(o.v))
        dict == [i \in 1..Len(good) |-> Option(good[i].k, StrInt(good[i].v))]
    IN  IF \E i \in 1..Len(sec) : ~IsInt(sec[i].v)
        THEN RaiseAt("ValueError", Loader(sec, dict))
        ELSE Ok(_alias_keys(_alias_keys(Loader(sec, dict), GRAY_NAME, GREY_NAME),
                            GREY_NAME, GRAY_NAME))

\* AnsiColors.load_colors: the loader after the call; a raise leaves the
\* section as read and the dict as it was
load_colors(ld, opts) ==
    LET sec == read(ld.colors_ini, opts)
        dict == [i \in 1..Len(sec) |-> Option(sec[i].k, StrInt(sec[i].v))]
    IN  IF \E i \in 1..Len(sec) : ~IsInt(sec[i].v)
        THEN RaiseAt("ValueError", Loader(sec, ld.dict_colors))
        ELSE Ok(_alias_keys(_alias_keys(Loader(sec, dict), GRAY_NAME, GREY_NAME),
                            GREY_NAME, GRAY_NAME))

\* AnsiColors._initialized and AnsiColors._colors_ini_path
Loaded(path) == [initialized |-> TRUE, colors_ini_path |-> path]

\* Tinta.load_colors(path): _initialized is cleared, then AnsiColors(path)
\* checks the path, loads, and records the path
Tinta_load_colors(ld, an, path) ==
    LET f == _check_path(path)
        r == load_colors(ld, f.v.opts)
        failed == [an EXCEPT !.initialized = FALSE]
    IN  IF f.exc # "" THEN [exc |-> f.exc, ld |-> ld, ansi |-> failed]
        ELSE IF r.exc # "" THEN [exc |-> r.exc, ld |-> r.v, ansi |-> failed]
        ELSE [exc |-> "", ld |-> r.v, ansi |-> Loaded(path)]

----------------------------------------------------------------------------
(* tinta.py: Tinta.Styler *)

\* the class attributes of Styler: what an instance reads before it sets anything
StylerClass ==
    [color |-> DEFAULT_NAME, color_code |-> 0, styles |-> {}, force_clear |-> FALSE]

\* a set_color that assigns the colour name before it looks the code up
set_color_NameFirst(st, color, reg) ==
    IF color.isstr
    THEN LET code == get(reg, color.s)
         IN  IF code.exc # "" THEN RaiseAt(code.exc, [st EXCEPT !.color = color.s])
             ELSE Ok([st EXCEPT !.color = color.s, !.color_code = code.v])
    ELSE Ok([st EXCEPT !.color = reverse_get(reg, color.i, TRUE).v,
                       !.color_code = color.i])

\* Styler.set_color; the result is Ok(styler), or the exception raised and the
\* styler as the raise leaves it
set_color(st, color, reg) ==
    IF color.isstr
    THEN LET code == get(reg, color.s)
         IN  IF code.exc # "" THEN RaiseAt(code.exc, st)
             ELSE Ok([st EXCEPT
                        !.color = IF is_ansi_str(color.s)
                                  THEN reverse_get(reg, code.v, TRUE).v
                                  ELSE color.s,
                        !.color_code = code.v])
    ELSE Ok([st EXCEPT !.color = reverse_get(reg, color.i, TRUE).v,
                       !.color_code = color.i])

\* Styler.set_styles, for names that validate_styles accepts
set_styles(st, styles) == [st EXCEPT !.styles = @ \cup styles]

\* Styler.__init__
NewStyler(color, styles, force_clear, reg) ==
    LET r == set_color(StylerClass, color, reg)
    IN  IF r.exc # "" THEN r
        ELSE Ok([set_styles(r.v, styles) EXCEPT !.force_clear = force_clear])

\* Tinta.Styler(): the default styler
DefaultStyler(reg) == NewStyler(IntColor(0), {}, FALSE, reg).v

\* Styler.copy: colour, code and the nine style flags; _force_clear is not copied
\* and reads as the class attribute
copy(st) == [st EXCEPT !.force_clear = StylerClass.force_clear]

\* a toggle_styles that only ever switches a style on
toggle_styles_OnOnly(st, style) == [st EXCEPT !.styles = @ \cup {style}]

\* Styler.toggle_styles(style)
toggle_styles(st, style) ==
    [st EXCEPT !.styles = IF style \in @ THEN @ \ {style} ELSE @ \cup {style}]

\* Styler.clear_styles
clear_styles(st) == [st EXCEPT !.styles = {}]

\* a clear_all that leaves the colour
clear_all_KeepsColor(st, force, reg) ==
    [st EXCEPT !.styles = {}, !.force_clear = force]

\* Styler.clear_all(force)
clear_all(st, force, reg) ==
    [set_color([st EXCEPT !.styles = {}], IntColor(0), reg).v
        EXCEPT !.force_clear = force]

\* Styler.active_styles: the active style names in the order of ANSI_STYLES
active_styles(st) == SelectSeq(ANSI_STYLES, LAMBDA n : n \in st.styles)

----------------------------------------------------------------------------
(* tinta.py: Tinta.Part *)

Part(s, st, sep) == [s |-> s, styler |-> st, sep |-> sep]

\* Part.has_formatting
has_formatting(p) == active_styles(p.styler) # <<>> \/ p.styler.color_code # 0

\* Tinta.has_formatting: next() takes the first item of the generator over the
\* parts, False when there is none
Tinta_has_formatting(ps) == IF ps = <<>> THEN FALSE ELSE has_formatting(ps[1])

----------------------------------------------------------------------------
(* stylize.py *)

\* _join(*values): ";".join(str(v) for v in values).strip(";").strip()
_join(values) == StrStrip(StrStrip(StrJoin(values, <<";">>), {";"}), Whitespace)

\* _color_code(spec, base) for an int spec; ValueError is the one-element
\* string <<"ValueError">>
_color_code(spec, base) ==
    IF spec = 0 THEN <<"0">>
    ELSE IF 1 <= spec /\ spec <= 255
         THEN _join(<<IntStr(base + 8), IntStr(5), IntStr(spec)>>)
    ELSE <<"ValueError">>

\* a stylize that repeats the colour code although lp has the same colour
EmitsColor_Always(lp, mp) == mp.styler.color_code # 0

\* stylize, line 251: the colour code of mp is emitted
EmitsColor(lp, mp) ==
    mp.styler.color_code # 0
        /\ (lp = None \/ mp.styler.color_code # lp[1].styler.color_code)

\* a stylize that switches on every style of mp, also those lp has
OnCodes_EveryStyle(lp, mp) ==
    LET mpstyle == active_styles(mp.styler)
        on1 == _join([i \in 1..Len(mpstyle) |-> IntStr(StyleOn(mpstyle[i]))])
    IN  IF ~has_formatting(mp) THEN <<>>
        ELSE IF EmitsColor(lp, mp)
             THEN _join(<<on1, _color_code(mp.styler.color_code, 30)>>)
             ELSE on1

\* the "# On" block of stylize: the codes emitted before the text of mp
OnCodes(lp, mp) ==
    LET mpstyle == active_styles(mp.styler)
        on1 == IF lp = None \/ ~has_formatting(lp[1])
               THEN _join([i \in 1..Len(mpstyle) |-> IntStr(StyleOn(mpstyle[i]))])
               ELSE IF mpstyle # active_styles(lp[1].styler)
                    THEN LET new == SelectSeq(mpstyle,
                                        LAMBDA n : n \notin lp[1].styler.styles)
                         IN  _join([i \in 1..Len(new) |-> IntStr(StyleOn(new[i]))])
                    ELSE <<>>
    IN  IF ~has_formatting(mp) THEN <<>>
        ELSE IF EmitsColor(lp, mp)
             THEN _join(<<on1, _color_code(mp.styler.color_code, 30)>>)
             ELSE on1

\* a stylize that does not reset before an unformatted next part
FullReset_OnlyAtEnd(mp, np) ==
    \/ np = None
    \/ mp.styler.force_clear
    \/ /\ active_styles(mp.styler) # <<>>
       /\ active_styles(np[1].styler) = <<>>
       /\ mp.styler.color_code # np[1].styler.color_code

\* stylize, lines 257-262: the off code of mp is a full reset
FullReset(mp, np) ==
    \/ np = None
    \/ ~has_formatting(np[1])
    \/ mp.styler.force_clear
    \/ /\ active_styles(mp.styler) # <<>>
       /\ active_styles(np[1].styler) = <<>>
       /\ mp.styler.color_code # np[1].styler.color_code

\* a stylize that emits no off code after the last part
OffCodes_NoneAtEnd(mp, np) ==
    IF ~has_formatting(mp) \/ np = None THEN <<>> ELSE <<"0">>

\* a stylize that switches off every style of mp, also those np keeps
OffCodes_EveryStyle(mp, np) ==
    LET mpstyle == active_styles(mp.styler)
    IN  IF ~has_formatting(mp) THEN <<>>
        ELSE IF FullReset(mp, np) THEN <<"0">>
        ELSE IF mpstyle # active_styles(np[1].styler)
             THEN LET offs == Sorted({StyleOff(mpstyle[i]) : i \in 1..Len(mpstyle)})
                  IN  _join([i \in 1..Len(offs) |-> IntStr(offs[i])])
        ELSE <<>>

\* the "# Off" block of stylize: the codes emitted after the text of mp
OffCodes(mp, np) ==
    LET mpstyle == active_styles(mp.styler)
    IN  IF ~has_formatting(mp) THEN <<>>
        ELSE IF FullReset(mp, np) THEN <<"0">>
        ELSE IF mpstyle # active_styles(np[1].styler)
             THEN LET gone == SelectSeq(mpstyle,
                                 LAMBDA n : n \notin np[1].styler.styles)
                      offs == Sorted({StyleOff(gone[i]) : i \in 1..Len(gone)})
                  IN  _join([i \in 1..Len(offs) |-> IntStr(offs[i])])
        ELSE <<>>

\* a stylize that puts the off code after the whole text, blanks included
stylize_OffAfterBlanks(s, lp, mp, np) ==
    LET on == OnCodes(lp, mp)
        off == OffCodes(mp, np)
        left == IF on # <<>> THEN <<ESC, "[">> \o on \o <<"m">> ELSE <<>>
        right == IF off # <<>> THEN <<ESC, "[">> \o off \o <<"m">> ELSE <<>>
    IN  left \o s \o right

\* stylize(s, lp, mp, np)
stylize(s, lp, mp, np) ==
    LET on == OnCodes(lp, mp)
        off == OffCodes(mp, np)
        left == IF on # <<>> THEN <<ESC, "[">> \o on \o <<"m">> ELSE <<>>
        right == IF off # <<>> THEN <<ESC, "[">> \o off \o <<"m">> ELSE <<>>
        last_char_idx == RstripLen(s)
    IN  left \o SubSeq(s, 1, last_char_idx) \o right
             \o SubSeq(s, last_char_idx + 1, Len(s))

\* was_reset(s)
was_reset(s) ==
    EndsWith(StrStrip(s, Whitespace), ANSI_RESET) \/ EndsWith(s, ANSI_RESET)

\* ensure_reset(s) with np = None
ensure_reset(s) ==
    IF was_reset(s) THEN s
    ELSE LET last_char_idx == RstripLen(s)
         IN  SubSeq(s, 1, last_char_idx) \o ANSI_RESET
                 \o SubSeq(s, last_char_idx + 1, Len(s))

----------------------------------------------------------------------------
(* tinta.py: rendering *)

\* a _get_sep that takes the separator of the next part
_get_sep_OfNext(mp, np, sep) ==
    IF np = None THEN <<>>
    ELSE IF sep # None THEN sep[1] ELSE np[1].sep

\* Tinta._get_sep
_get_sep(mp, np, sep) ==
    IF np = None THEN <<>>
    ELSE IF sep # None THEN sep[1] ELSE mp.sep

\* a _get_str without the punctuation case
_get_str_NoPunctuation(plaintext, lp, mp, np, sep, fix_punc) ==
    LET s == IF plaintext THEN mp.s ELSE stylize(mp.s, lp, mp, np)
        bare ==
            /\ fix_punc
            /\ \/ np = None
               \/ np[1].s = <<>>
               \/ mp.s = <<>>
               \/ StartsWith(np[1].s, <<LF>>)
               \/ EndsWith(mp.s, <<LF>>)
    IN  IF bare THEN s ELSE s \o _get_sep(mp, np, sep)

\* Tinta._get_str for attr "pln" (plaintext) or "fmt"
_get_str(plaintext, lp, mp, np, sep, fix_punc) ==
    LET s == IF plaintext THEN mp.s ELSE stylize(mp.s, lp, mp, np)
        bare ==
            /\ fix_punc
            /\ \/ np = None
               \/ np[1].s = <<>>
               \/ mp.s = <<>>
               \/ StartsWith(np[1].s, <<LF>>)
               \/ EndsWith(mp.s, <<LF>>)
               \/ /\ np[1].s[1] \in PUNC
                  /\ (Len(np[1].s) = 1 \/ np[1].s[2] = " ")
    IN  IF bare THEN s ELSE s \o _get_sep(mp, np, sep)

\* Tinta._parts_tuple: the (lp, p, np) triple of part i
PartsTuple(ps, i) ==
    [lp |-> IF i > 1 THEN Some(ps[i - 1]) ELSE None,
     p |-> ps[i],
     np |-> IF i < Len(ps) THEN Some(ps[i + 1]) ELSE None]

\* a to_str that looks at the current part first, which an empty builder
\* gets on the way, and so renders a reset for it
to_str_OfCurrentPart(ps, sep, plaintext, fix_punctuation) ==
    IF ps = <<>> THEN (IF plaintext THEN <<>> ELSE ANSI_RESET)
    ELSE Flatten([i \in 1..Len(ps) |->
            LET t == PartsTuple(ps, i)
            IN  _get_str(plaintext, t.lp, t.p, t.np, sep, fix_punctuation)])

\* Tinta.to_str(sep, plaintext, escape_ansi=False, fix_punctuation)
to_str(ps, sep, plaintext, fix_punctuation) ==
    IF ps = <<>> THEN <<>>
    ELSE Flatten([i \in 1..Len(ps) |->
            LET t == PartsTuple(ps, i)
            IN  _get_str(plaintext, t.lp, t.p, t.np, sep, fix_punctuation)])

\* the exception to_str propagates, "" for none: _color_code raises ValueError
\* in stylize for a colour code it emits and cannot encode
to_str_exc(ps) ==
    IF \E i \in 1..Len(ps) :
            LET t == PartsTuple(ps, i)
            IN  /\ has_formatting(t.p)
                /\ EmitsColor(t.lp, t.p)
                /\ _color_code(t.p.styler.color_code, 30) = <<"ValueError">>
    THEN "ValueError"
    ELSE ""

\* the number of regex matches strip_ansi replaces: its fourth positional
\* argument, re.I | re.M | re.U, is the count parameter of re.sub
StripCount == 42

\* character classes of the pattern \x1B(?:[@-Z\\-_]|\[[0-?]*[ -/]*[@-~])
Ord(c) ==
    CASE c = "\t" -> 9 [] c = LF -> 10 [] c = "\r" -> 13 [] c = ESC -> 27
      [] c = " " -> 32 [] c = "!" -> 33 [] c = "," -> 44 [] c = "." -> 46
      [] IsDigit(c) -> 48 + DigitVal(c)
      [] c = ":" -> 58 [] c = ";" -> 59 [] c = "?" -> 63
      [] c = "A" -> 65 [] c = "B" -> 66 [] c = "[" -> 91 [] c = "]" -> 93
      [] c = "a" -> 97 [] c = "b" -> 98 [] c = "c" -> 99 [] c = "m" -> 109
      [] OTHER -> 120

\* the length of the match of the pattern at position i of s, 0 for no match
MatchLen(s, i) ==
    LET InRange(k, lo, hi) == k <= Len(s) /\ Ord(s[k]) >= lo /\ Ord(s[k]) <= hi
        \* the first position >= k whose character is not in lo..hi
        Skip(k, lo, hi) ==
            LET stop == {j \in k..Len(s) : ~InRange(j, lo, hi)}
            IN  IF stop = {} THEN Len(s) + 1
                ELSE CHOOSE j \in stop : \A x \in stop : j <= x
    IN  IF s[i] # ESC \/ i = Len(s) THEN 0
        ELSE IF InRange(i + 1, 64, 90) \/ InRange(i + 1, 92, 95) THEN 2
        ELSE IF s[i + 1] # "[" THEN 0
        ELSE LET a == Skip(i + 2, 48, 63)
                 b == Skip(a, 32, 47)
             IN  IF InRange(b, 64, 126) THEN b - i + 1 ELSE 0

\* re.sub(pattern, "", s, count): the leftmost matches are removed, at most count
RECURSIVE ReSub(_, _, _)
ReSub(s, i, count) ==
    IF i > Len(s) THEN <<>>
    ELSE LET n == IF count > 0 THEN MatchLen(s, i) ELSE 0
         IN  IF n > 0 THEN ReSub(s, i + n, count - 1)
             ELSE <<s[i]>> \o ReSub(s, i + 1, count)

\* Tinta.strip_ansi
strip_ansi(s) == ReSub(s, 1, StripCount)

\* fillchar * n: nothing for n <= 0
RECURSIVE Rep(_, _)
Rep(x, n) == IF n <= 0 THEN <<>> ELSE x \o Rep(x, n - 1)

\* Tinta.ljust
ljust(s, width, fillchar) == s \o Rep(fillchar, width - Len(strip_ansi(s)))

\* Tinta.rjust
rjust(s, width, fillchar) == Rep(fillchar, width - Len(strip_ansi(s))) \o s

----------------------------------------------------------------------------
(* tinta.py: the builder operations, as functions of the builder's fields *)
(* b = [parts, styler, prefixes]; the result is Ok(b) or the exception     *)

Builder(ps, st, px) == [parts |-> ps, styler |-> st, prefixes |-> px]

\* Tinta.current_part's side effect: a builder without parts gets an empty one
WithCurrentPart(ps, reg) ==
    IF ps = <<>> THEN <<Part(<<>>, DefaultStyler(reg), SEP)>> ELSE ps

\* a push that appends a part whatever the text of the current part
push_AlwaysAppends(b, s, sep, reg) ==
    LET sep1 == IF sep = None THEN SEP ELSE sep[1]
        joined == IF s = <<>> THEN <<>> ELSE StrJoin(s, sep1)
    IN  Builder(Append(WithCurrentPart(b.parts, reg),
                       Part(joined, copy(b.styler), sep1)),
                [b.styler EXCEPT !.force_clear = FALSE],
                <<>>)

\* a push whose parts hold the live styler itself instead of a copy of it
push_SharedStyler(b, s, sep, reg) ==
    LET sep1 == IF sep = None THEN SEP ELSE sep[1]
        joined == IF s = <<>> THEN <<>> ELSE StrJoin(s, sep1)
        pln == IF b.prefixes # <<>> THEN Flatten(b.prefixes) \o joined ELSE joined
        ps == WithCurrentPart(b.parts, reg)
        new == Part(pln, copy(b.styler), sep1)
        all == IF ps[Len(ps)].s # <<>> THEN Append(ps, new)
               ELSE [ps EXCEPT ![Len(ps)] = new]
    IN  Builder([i \in 1..Len(all) |-> [all[i] EXCEPT !.styler = copy(b.styler)]],
                [b.styler EXCEPT !.force_clear = FALSE],
                <<>>)

\* Tinta.push(*s, sep)
push(b, s, sep, reg) ==
    LET sep1 == IF sep = None THEN SEP ELSE sep[1]
        joined == IF s = <<>> THEN <<>> ELSE StrJoin(s, sep1)
        pln == IF b.prefixes # <<>> THEN Flatten(b.prefixes) \o joined ELSE joined
        ps == WithCurrentPart(b.parts, reg)
        new == Part(pln, copy(b.styler), sep1)
    IN  Builder(IF ps[Len(ps)].s # <<>> THEN Append(ps, new)
                ELSE [ps EXCEPT ![Len(ps)] = new],
                [b.styler EXCEPT !.force_clear = FALSE],
                <<>>)

\* a pop that removes one part at most
PopCount_AtMostOne(qty, n) == IF qty > 0 /\ n > 0 THEN 1 ELSE 0

\* Tinta.pop: the number of parts popped, len(range(min(qty, len(self._parts))))
PopCount(qty, n) == IF Min(qty, n) < 0 THEN 0 ELSE Min(qty, n)

\* a pop that leaves the live styler as it is
pop_KeepsStyler(b, qty, reg) ==
    Builder(SubSeq(b.parts, 1, Len(b.parts) - PopCount(qty, Len(b.parts))),
            b.styler, b.prefixes)

\* Tinta.pop(qty)
pop(b, qty, reg) ==
    LET ps == SubSeq(b.parts, 1, Len(b.parts) - PopCount(qty, Len(b.parts)))
    IN  Builder(ps,
                IF ps # <<>> THEN copy(ps[Len(ps)].styler) ELSE DefaultStyler(reg),
                b.prefixes)

\* a tint that sets no colour when the colour is its first argument
tint_PositionalUncoloured(b, color, positional, s, sep, reg) ==
    IF positional /\ ~(1 + Len(s) > 1) THEN RaiseAt("AttributeError", b)
    ELSE LET r == set_color(b.styler, color, reg)
         IN  IF r.exc # "" THEN RaiseAt(r.exc, [b EXCEPT !.styler = r.v])
             ELSE IF positional THEN Ok(push(b, s, sep, reg))
             ELSE Ok(push([b EXCEPT !.styler = r.v], s, sep, reg))

\* stylize.tint(instance, *args, **kwargs): the colour is the keyword argument
\* color, or (positional) the first of args, which then needs a second one
tint(b, color, positional, s, sep, reg) ==
    IF positional /\ ~(1 + Len(s) > 1) THEN RaiseAt("AttributeError", b)
    ELSE LET r == set_color(b.styler, color, reg)
         IN  IF r.exc # "" THEN RaiseAt(r.exc, [b EXCEPT !.styler = r.v])
             ELSE Ok(push([b EXCEPT !.styler = r.v], s, sep, reg))

toggle(b, style, s, sep, reg) ==
    push([b EXCEPT !.styler = toggle_styles(@, style)], s, sep, reg)

\* Tinta.normal
normal(b, s, sep, reg) == push([b EXCEPT !.styler = clear_styles(@)], s, sep, reg)

\* Tinta.default
default(b, s, sep, reg) ==
    push([b EXCEPT !.styler = set_color(@, IntColor(0), reg).v], s, sep, reg)

\* a clear that also drops the parts
clear_DropsParts(b, s, sep, reg) ==
    [push([b EXCEPT !.styler = clear_all(@, TRUE, reg)], s, sep, reg)
        EXCEPT !.parts = <<>>]

\* Tinta.clear
clear(b, s, sep, reg) ==
    push([b EXCEPT !.styler = clear_all(@, TRUE, reg)], s, sep, reg)

\* Tinta.nl
nl(b, s, sep, reg) == push([b EXCEPT !.prefixes = <<<<LF>>>>], s, sep, reg)

\* a print that empties the parts and keeps the live styler
print_KeepsStyler(b, sep, plaintext, force, stealth, prefer_plaintext, reg) ==
    IF stealth /\ ~force THEN [b |-> b, written |-> None]
    ELSE [b |-> [b EXCEPT !.parts = <<>>],
          written |-> Some(to_str(b.parts, sep, plaintext \/ prefer_plaintext,
                                  SMART_FIX_PUNCTUATION) \o <<LF>>)]

\* Tinta.print(sep, end="\n", plaintext, force): the builder afterwards and
\* what was written (None when nothing was)
print(b, sep, plaintext, force, stealth, prefer_plaintext, reg) ==
    IF stealth /\ ~force THEN [b |-> b, written |-> None]
    ELSE LET use_plaintext == plaintext \/ prefer_plaintext
             cleared == clear(b, <<>>, Some(SEP), reg)
         IN  [b |-> [cleared EXCEPT !.parts = <<>>],
              written |-> Some(to_str(b.parts, sep, use_plaintext,
                                      SMART_FIX_PUNCTUATION) \o <<LF>>)]

\* names that hasattr finds on a new instance: methods of Tinta (some of them)
BuiltinNames ==
    {PRINT_NAME, <<"p", "u", "s", "h">>, <<"b", "o", "l", "d">>, <<"p", "o", "p">>,
     <<"t", "i", "n", "t">>}

\* Tinta.__init__(*s, color, styles, sep)
init(s, color, styles, sep, reg) ==
    LET st == NewStyler(color, styles, FALSE, reg)
        b == Builder(<<>>, st.v, <<>>)
    IN  IF st.exc # "" THEN Raise(st.exc)
        ELSE IF \E i \in 1..Len(reg) : reg[i].k \in BuiltinNames
             THEN Raise("AttributeError")
        ELSE Ok(IF s # <<>> THEN push(b, s, Some(sep), reg) ELSE b)

----------------------------------------------------------------------------
(* The state machine: one action per public call on one Tinta instance *)

Self == Builder(parts, styler, prefixes)

Plain(ps) == to_str(ps, None, TRUE, SMART_FIX_PUNCTUATION)
Styled(ps) == to_str(ps, None, FALSE, SMART_FIX_PUNCTUATION)

Call(name, arg) == [name |-> name, exc |-> "", arg |-> arg]

\* the builder becomes b; added keeps, for every part, the plaintext rendered
\* when the part was appended
Becomes(b) ==
    /\ parts' = b.parts
    /\ styler' = b.styler
    /\ prefixes' = b.prefixes
    /\ added' = IF Len(b.parts) > Len(parts)
                THEN Append(added, Plain(parts))
                ELSE SubSeq(added, 1, Len(b.parts))

\* a call that returns or raises leaves the builder r.v and writes nothing
Returns(name, arg, r, cap) ==
    /\ Len(r.v.parts) <= cap
    /\ Becomes(r.v)
    /\ op' = [name |-> name, exc |-> r.exc, arg |-> arg]
    /\ out' = None
    /\ UNCHANGED <<dict_colors, colors_ini, ansi, given, STEALTH, PREFER_PLAINTEXT, other>>

Push(Vals, Seps, cap) ==
    \E s \in Vals, sep \in Seps :
        Returns("push", Len(s), Ok(push(Self, s, sep, dict_colors)), cap)

Pop(Qtys, cap) ==
    \E qty \in Qtys :
        Returns("pop", qty, Ok(pop(Self, qty, dict_colors)), cap)

Tint(Colors, Vals, Seps, cap) ==
    \E color \in Colors, positional \in BOOLEAN, s \in Vals, sep \in Seps :
        Returns("tint", Len(s),
                tint(Self, color, positional, s, Some(sep), dict_colors), cap)

\* the colour methods injected by __init__: functools.partial(self.tint, color=c)
ColorMethod(Names, Vals, Seps, cap) ==
    \E c \in Names, s \in Vals, sep \in Seps :
        /\ HasKey(dict_colors, c)
        /\ Returns("color", Len(s),
                   tint(Self, StrColor(c), FALSE, s, Some(sep), dict_colors), cap)

Bold(Vals, Seps, cap) ==
    \E s \in Vals, sep \in Seps :
        Returns("bold", Len(s),
                Ok(toggle(Self, "bold", s, Some(sep), dict_colors)), cap)

Underline(Vals, Seps, cap) ==
    \E s \in Vals, sep \in Seps :
        Returns("underline", Len(s),
                Ok(toggle(Self, "underline", s, Some(sep), dict_colors)), cap)

Strikethrough(Vals, Seps, cap) ==
    \E s \in Vals, sep \in Seps :
        Returns("strikethrough", Len(s),
                Ok(toggle(Self, "strikethrough", s, Some(sep), dict_colors)), cap)

Dim(Vals, Seps, cap) ==
    \E s \in Vals, sep \in Seps :
        Returns("dim", Len(s),
                Ok(toggle(Self, "dim", s, Some(sep), dict_colors)), cap)

Normal(Vals, Seps, cap) ==
    \E s \in Vals, sep \in Seps :
        Returns("normal", Len(s), Ok(normal(Self, s, Some(sep), dict_colors)), cap)

Default(Vals, Seps, cap) ==
    \E s \in Vals, sep \in Seps :
        Returns("default", Len(s), Ok(default(Self, s, Some(sep), dict_colors)), cap)

Clear(Vals, Seps, cap) ==
    \E s \in Vals, sep \in Seps :
        Returns("clear", Len(s), Ok(clear(Self, s, Some(sep), dict_colors)), cap)

Nl(Vals, Seps, cap) ==
    \E s \in Vals, sep \in Seps :
        Returns("nl", Len(s), Ok(nl(Self, s, Some(sep), dict_colors)), cap)

DoPrint(SepArgs) ==
    \E sep \in SepArgs, plaintext \in BOOLEAN, force \in BOOLEAN :
        LET r == print(Self, sep, plaintext, force, STEALTH, PREFER_PLAINTEXT,
                       dict_colors)
        IN  /\ Becomes(r.b)
            /\ out' = r.written
            /\ op' = Call("print", IF force THEN 1 ELSE 0)
            /\ UNCHANGED <<dict_colors, colors_ini, ansi, given, STEALTH, PREFER_PLAINTEXT, other>>

\* Tinta.to_str(): the rendering is handed to the caller
ToStr(SepArgs, Plaintexts, FixPuncs) ==
    \E sep \in SepArgs, plaintext \in Plaintexts, fix_punctuation \in FixPuncs :
        LET exc == IF plaintext THEN "" ELSE to_str_exc(parts)
        IN  /\ out' = IF exc # "" THEN None
                      ELSE Some(to_str(parts, sep, plaintext, fix_punctuation))
            /\ op' = [name |-> "to_str", exc |-> exc,
                      arg |-> [sep |-> sep, plaintext |-> plaintext,
                               fix_punctuation |-> fix_punctuation]]
            /\ UNCHANGED <<parts, styler, prefixes, added, dict_colors, colors_ini,
                           ansi, given, STEALTH, PREFER_PLAINTEXT, other>>

\* Tinta.strip_ansi(given)
StripAnsi ==
    /\ out' = Some(strip_ansi(given))
    /\ op' = Call("strip_ansi", 0)
    /\ UNCHANGED <<parts, styler, prefixes, added, dict_colors, colors_ini, ansi,
                   given, STEALTH, PREFER_PLAINTEXT, other>>

\* Tinta.ljust(given, width, fillchar)
Ljust(Widths, Fills) ==
    \E width \in Widths, fillchar \in Fills :
        /\ out' = Some(ljust(given, width, fillchar))
        /\ op' = Call("ljust", [width |-> width, fillchar |-> fillchar])
        /\ UNCHANGED <<parts, styler, prefixes, added, dict_colors, colors_ini,
                       ansi, given, STEALTH, PREFER_PLAINTEXT, other>>

\* Tinta.rjust(given, width, fillchar)
Rjust(Widths, Fills) ==
    \E width \in Widths, fillchar \in Fills :
        /\ out' = Some(rjust(given, width, fillchar))
        /\ op' = Call("rjust", [width |-> width, fillchar |-> fillchar])
        /\ UNCHANGED <<parts, styler, prefixes, added, dict_colors, colors_ini,
                       ansi, given, STEALTH, PREFER_PLAINTEXT, other>>

\* Tinta.load_colors(path)
LoadColors(Sources) ==
    \E path \in Sources :
        LET r == Tinta_load_colors(Loader(colors_ini, dict_colors), ansi, path)
        IN  /\ colors_ini' = r.ld.colors_ini
            /\ dict_colors' = r.ld.dict_colors
            /\ ansi' = r.ansi
            /\ op' = [name |-> "load_colors", exc |-> r.exc, arg |-> path]
            /\ out' = None
            /\ UNCHANGED <<parts, styler, prefixes, added, given, STEALTH,
                           PREFER_PLAINTEXT, other>>

\* t = Tinta(*s): the name is bound to the new instance unless __init__ raises
Construct(Vals, cap) ==
    \E s \in Vals :
        LET r == init(s, IntColor(0), {}, SEP, dict_colors)
        IN  Returns("Tinta", Len(s),
                    IF r.exc # "" THEN RaiseAt(r.exc, Self) ELSE r, cap)

----------------------------------------------------------------------------
(* Calls on the second instance.  Its fields were created by its own       *)
(* __init__; the calls assign to them and to nothing else                  *)

\* a second instance whose _parts is the list of the first
OtherBecomes_SharedParts(b) ==
    /\ other' = b
    /\ parts' = b.parts
    /\ UNCHANGED <<styler, prefixes, added>>

\* the second instance becomes b
OtherBecomes(b) ==
    /\ other' = b
    /\ UNCHANGED <<parts, styler, prefixes, added>>

OtherReturns(name, arg, r, cap) ==
    /\ Len(r.v.parts) <= cap
    /\ OtherBecomes(r.v)
    /\ op' = [name |-> name, exc |-> r.exc, arg |-> arg]
    /\ out' = None
    /\ UNCHANGED <<dict_colors, colors_ini, ansi, given, STEALTH, PREFER_PLAINTEXT>>

OtherPop(Qtys, cap) ==
    \E qty \in Qtys :
        OtherReturns("other.pop", qty, Ok(pop(other, qty, dict_colors)), cap)

OtherPrint(SepArgs) ==
    \E sep \in SepArgs, plaintext \in BOOLEAN, force \in BOOLEAN :
        LET r == print(other, sep, plaintext, force, STEALTH, PREFER_PLAINTEXT,
                       dict_colors)
        IN  /\ OtherBecomes(r.b)
            /\ out' = r.written
            /\ op' = Call("other.print", IF force THEN 1 ELSE 0)
            /\ UNCHANGED <<dict_colors, colors_ini, ansi, given, STEALTH, PREFER_PLAINTEXT>>

\* the calls that carry a text
Kinds ==
    {"push", "tint", "color", "bold", "underline", "dim", "strikethrough",
     "normal", "clear", "default"}

\* a styling call that also queues a line break
Styling_WithLineBreak(b, kind, reg) ==
    [b EXCEPT !.prefixes = IF kind = "push" THEN @ ELSE <<<<LF>>>>]

\* what the call of the given kind does to the builder before it pushes
Styling(b, kind, reg) ==
    [b EXCEPT !.styler =
        CASE kind \in {"bold", "underline", "dim", "strikethrough"} ->
                toggle_styles(@, kind)
          [] kind = "normal" -> clear_styles(@)
          [] kind = "clear" -> clear_all(@, TRUE, reg)
          [] kind = "default" -> set_color(@, IntColor(0), reg).v
          [] OTHER -> @]

\* the builder b after the call of the given kind with the values s; tint
\* (colour first) and the colour method are called with a registered colour
Carried(b, kind, s, sep, reg) ==
    IF kind \in {"tint", "color"}
    THEN tint(b, StrColor(RED_NAME), kind = "tint", s, Some(sep), reg).v
    ELSE push(Styling(b, kind, reg), s, Some(sep), reg)

\* a call of one of the kinds on this instance
Carry(Called, Vals, Seps, cap) ==
    \E kind \in Called, s \in Vals, sep \in Seps :
        Returns(kind, Len(s), Ok(Carried(Self, kind, s, sep, dict_colors)), cap)

\* a call of one of the kinds on the second instance
OtherCarry(Called, Vals, Seps, cap) ==
    \E kind \in Called, s \in Vals, sep \in Seps :
        OtherReturns("other." \o kind, Len(s),
                     Ok(Carried(other, kind, s, sep, dict_colors)), cap)

\* two calls with the same values and the same sep: one of any kind on this
\* instance, a push on the second instance
Twin(Called, Vals, Seps, cap) ==
    \E kind \in Called, s \in Vals, sep \in Seps :
        LET b == Carried(Self, kind, s, sep, dict_colors)
        IN  /\ Len(b.parts) <= cap
            /\ Becomes(b)
            /\ other' = push(other, s, Some(sep), dict_colors)
            /\ op' = Call(kind, Len(s))
            /\ out' = None
            /\ UNCHANGED <<dict_colors, colors_ini, ansi, given, STEALTH, PREFER_PLAINTEXT>>

----------------------------------------------------------------------------
(* Spec: a client that composes the text "a" in red, bold and dim *)

Ta == <<"a">>
Tb == <<"b", " ">>

Vals == {<<>>, <<Ta>>}
Seps == {SEP}
Colors == {StrColor(RED_NAME), IntColor(0), StrColor(SPARKLE_NAME)}
Qtys == 0..2

\* Tinta(), with the flags as constants.py sets them when the environment is empty
Init ==
    /\ dict_colors = DefaultColors
    /\ colors_ini = DefaultIni
    /\ ansi = Loaded(DEFAULT_PATH)
    /\ given = <<>>
    /\ parts = <<>>
    /\ styler = DefaultStyler(DefaultColors)
    /\ prefixes = <<>>
    /\ STEALTH = FALSE
    /\ PREFER_PLAINTEXT = FALSE
    /\ out = None
    /\ op = Call("init", 0)
    /\ added = <<>>
    /\ other = init(<<>>, IntColor(0), {}, SEP, DefaultColors).v

Next ==
    \/ Push(Vals, {None}, MaxParts)
    \/ Pop(Qtys, MaxParts)
    \/ Tint(Colors, Vals, Seps, MaxParts)
    \/ ColorMethod({RED_NAME}, Vals, Seps, MaxParts)
    \/ Bold(Vals, Seps, MaxParts)
    \/ Dim(Vals, Seps, MaxParts)
    \/ Normal(Vals, Seps, MaxParts)
    \/ Default(Vals, Seps, MaxParts)
    \/ Clear(Vals, Seps, MaxParts)
    \/ DoPrint({None})

Spec == Init /\ [][Next]_vars

----------------------------------------------------------------------------
(* SpecText: a client that pushes one or two texts, "a" and "b " with its  *)
(* trailing blank, with the default separator or the empty one             *)

TextVals == {<<>>, <<Ta>>, <<Tb>>, <<Ta, Tb>>}
TextSeps == {None, Some(<<>>)}

NextText ==
    \/ Push(TextVals, TextSeps, MaxParts)
    \/ Pop(Qtys, MaxParts)
    \/ ColorMethod({RED_NAME}, {<<>>, <<Tb>>}, Seps, MaxParts)
    \/ Clear({<<>>}, Seps, MaxParts)
    \/ Nl({<<Ta>>}, Seps, MaxParts)

SpecText == Init /\ [][NextText]_vars

----------------------------------------------------------------------------
(* SpecEnv: the process-wide flags as the environment may have set them    *)

MaxEnvParts == 2

InitEnv ==
    /\ dict_colors = DefaultColors
    /\ colors_ini = DefaultIni
    /\ ansi = Loaded(DEFAULT_PATH)
    /\ given = <<>>
    /\ parts = <<>>
    /\ styler = DefaultStyler(DefaultColors)
    /\ prefixes = <<>>
    /\ STEALTH \in BOOLEAN
    /\ PREFER_PLAINTEXT \in BOOLEAN
    /\ out = None
    /\ op = Call("init", 0)
    /\ added = <<>>
    /\ other = init(<<>>, IntColor(0), {}, SEP, DefaultColors).v

NextEnv ==
    \/ Push(Vals, {None}, MaxEnvParts)
    \/ ColorMethod({RED_NAME, GREEN_NAME}, Vals, Seps, MaxEnvParts)
    \/ Underline(Vals, Seps, MaxEnvParts)
    \/ Strikethrough(Vals, Seps, MaxEnvParts)
    \/ DoPrint({None, Some(<<>>)})

SpecEnv == InitEnv /\ [][NextEnv]_vars

----------------------------------------------------------------------------
(* SpecLong: a builder constructed with or without a text, a colour and a  *)
(* style, to which bold("a") is applied again and again                    *)

MaxLongParts == 43

InitLong ==
    /\ dict_colors = DefaultColors
    /\ colors_ini = DefaultIni
    /\ ansi = Loaded(DEFAULT_PATH)
    /\ given = <<>>
    /\ \E s \in Vals, sty \in {{}, {"underline"}},
          color \in {IntColor(0), StrColor(RED_NAME), StrColor(GREEN_NAME)} :
            LET b == init(s, color, sty, SEP, DefaultColors).v
            IN  /\ parts = b.parts
                /\ styler = b.styler
                /\ prefixes = b.prefixes
                /\ op = Call("init", Len(s))
                /\ added = [i \in 1..Len(b.parts) |-> <<>>]
    /\ STEALTH = FALSE
    /\ PREFER_PLAINTEXT = FALSE
    /\ out = None
    /\ other = init(<<>>, IntColor(0), {}, SEP, DefaultColors).v

NextLong ==
    \/ Bold({<<Ta>>}, Seps, MaxLongParts)
    \/ Pop({1}, MaxLongParts)

SpecLong == InitLong /\ [][NextLong]_vars

----------------------------------------------------------------------------
(* SpecLife: the life of one instance under any flags: composed through    *)
(* every kind of call, shortened by pop, printed                           *)

MaxLifeParts == 2

NextLife ==
    \/ Push(Vals, {None}, MaxLifeParts)
    \/ Pop(Qtys, MaxLifeParts)
    \/ Tint(Colors, Vals, Seps, MaxLifeParts)
    \/ Bold(Vals, Seps, MaxLifeParts)
    \/ Normal(Vals, Seps, MaxLifeParts)
    \/ Default(Vals, Seps, MaxLifeParts)
    \/ Clear(Vals, Seps, MaxLifeParts)
    \/ Nl(Vals, Seps, MaxLifeParts)
    \/ DoPrint({None})

SpecLife == InitEnv /\ [][NextLife]_vars

----------------------------------------------------------------------------
(* SpecPunc: texts with punctuation and line breaks, pushed with the       *)
(* default separator or with "-"                                           *)

MaxPuncParts == 3

Tbang == <<"!">>
TbangA == <<"!", "a">>
TcommaA == <<",", " ", "a">>
TaLF == <<"a", LF>>

PuncVals == {<<>>, <<Ta>>, <<Tbang>>, <<TbangA>>, <<TcommaA>>, <<TaLF>>}
PuncSeps == {None, Some(<<"-">>)}

\* the sep arguments of to_str
SepArgs == {None, Some(<<>>), Some(<<"+">>)}

NextPunc ==
    \/ Push(PuncVals, PuncSeps, MaxPuncParts)
    \/ ColorMethod({RED_NAME}, {<<Ta>>}, Seps, MaxPuncParts)
    \/ Nl({<<Ta>>}, Seps, MaxPuncParts)
    \/ Pop({1}, MaxPuncParts)

SpecPunc == Init /\ [][NextPunc]_vars

----------------------------------------------------------------------------
(* SpecTint: the colours red and green given by name, by code and through  *)
(* the colour methods, with no, one or two texts                           *)

TintVals == {<<>>, <<Ta>>, <<Ta, Tb>>}
TintColors ==
    {StrColor(RED_NAME), IntColor(1), StrColor(GREEN_NAME), IntColor(35)}

NextTint ==
    \/ Tint(TintColors, TintVals, Seps, MaxEnvParts)
    \/ ColorMethod({RED_NAME, GREEN_NAME}, TintVals, Seps, MaxEnvParts)
    \/ Bold({<<>>}, Seps, MaxEnvParts)
    \/ Pop({1}, MaxEnvParts)

SpecTint == Init /\ [][NextTint]_vars

----------------------------------------------------------------------------
(* SpecStyle: the four style calls, with and without a text, on a default  *)
(* or red live style                                                       *)

NextStyle ==
    \/ Bold(Vals, Seps, MaxEnvParts)
    \/ Underline(Vals, Seps, MaxEnvParts)
    \/ Dim(Vals, Seps, MaxEnvParts)
    \/ Strikethrough(Vals, Seps, MaxEnvParts)
    \/ ColorMethod({RED_NAME}, {<<>>}, Seps, MaxEnvParts)
    \/ Pop({1}, MaxEnvParts)

SpecStyle == Init /\ [][NextStyle]_vars

----------------------------------------------------------------------------
(* SpecTwin: two instances that receive the same texts, the second through *)
(* push only, the first through calls of any kind and with style calls     *)
(* without text in between                                                 *)

MaxTwinParts == 2

Tempty == <<>>
TwinVals == {<<Ta>>, <<Tbang>>, <<Tempty>>}
TwinSeps == {SEP, <<"-">>}
TwinKinds == {"push", "tint", "color", "bold", "normal", "clear", "default"}

NextTwin ==
    \/ Twin(TwinKinds, TwinVals, TwinSeps, MaxTwinParts)
    \/ Carry(TwinKinds \ {"push", "tint"}, {<<>>}, Seps, MaxTwinParts)

SpecTwin == Init /\ [][NextTwin]_vars

----------------------------------------------------------------------------
(* SpecChain: one instance composed through the chaining calls, with and   *)
(* without a text, and shortened by pop; of the four style calls, which    *)
(* SpecStyle combines, it has bold and underline                           *)

MaxChainParts == 2

ChainKinds == Kinds \ {"dim", "strikethrough"}

NextChain ==
    \/ Carry(ChainKinds, Vals, Seps, MaxChainParts)
    \/ Nl(Vals, Seps, MaxChainParts)
    \/ Pop(Qtys, MaxChainParts)

SpecChain == Init /\ [][NextChain]_vars

----------------------------------------------------------------------------
(* SpecOnOff: one instance composed of a colour, two styles and the call   *)
(* that ends them, so that consecutive parts differ in each of them        *)

OnOffKinds == {"color", "bold", "underline", "normal"}

NextOnOff ==
    \/ Carry(OnOffKinds, Vals, Seps, MaxChainParts)
    \/ Pop({1}, MaxChainParts)

SpecOnOff == Init /\ [][NextOnOff]_vars

----------------------------------------------------------------------------
(* SpecCode: colours given as indices, inside and outside 0..255, and the  *)
(* composition rendered                                                    *)

CodeColors == {IntColor(1), IntColor(255), IntColor(256), IntColor(-1)}

NextCode ==
    \/ Tint(CodeColors, Vals, Seps, MaxEnvParts)
    \/ Push(Vals, {None}, MaxEnvParts)
    \/ Pop({1}, MaxEnvParts)
    \/ ToStr({None}, {FALSE}, {SMART_FIX_PUNCTUATION})

SpecCode == Init /\ [][NextCode]_vars

----------------------------------------------------------------------------
(* SpecReload: colours given by name and by index, registered or not,      *)
(* while another colour source is loaded                                   *)

ReloadColors ==
    {StrColor(RED_NAME), StrColor(SPARKLE_NAME), IntColor(0), IntColor(1),
     IntColor(195)}

NextReload ==
    \/ Tint(ReloadColors, Vals, Seps, MaxEnvParts)
    \/ Clear(Vals, Seps, MaxEnvParts)
    \/ Pop({1}, MaxEnvParts)
    \/ LoadColors({"alt.ini"})

SpecReload == Init /\ [][NextReload]_vars

----------------------------------------------------------------------------
(* SpecRender: a composition of the texts "a", "b " and "!", red or not,   *)
(* rendered at any point with any arguments                                *)

NextRender ==
    \/ Push({<<Ta>>, <<Tb>>, <<Tbang>>}, TextSeps, MaxEnvParts)
    \/ ColorMethod({RED_NAME}, {<<Tb>>}, Seps, MaxEnvParts)
    \/ Clear({<<>>}, Seps, MaxEnvParts)
    \/ Pop({1}, MaxEnvParts)
    \/ ToStr(SepArgs, BOOLEAN, BOOLEAN)

SpecRender == Init /\ [][NextRender]_vars

----------------------------------------------------------------------------
(* SpecTwo: two instances used in any interleaving                         *)

TwoVals == {<<Ta>>}
TwoKinds == {"push", "color", "bold"}

NextTwo ==
    \/ Carry(TwoKinds, TwoVals, Seps, MaxEnvParts)
    \/ Pop({1}, MaxEnvParts)
    \/ DoPrint({None})
    \/ ToStr({None}, {FALSE}, {SMART_FIX_PUNCTUATION})
    \/ OtherCarry(TwoKinds, TwoVals, Seps, MaxEnvParts)
    \/ OtherPop({1}, MaxEnvParts)
    \/ OtherPrint({None})

SpecTwo == Init /\ [][NextTwo]_vars

----------------------------------------------------------------------------
(* SpecReg: colour sources are loaded one after the other, instances are   *)
(* constructed in between                                                   *)

RegSources == {DEFAULT_PATH, "alt.ini", "bad.ini", "print.ini", "emptydir", "nope.ini"}

NextReg ==
    \/ LoadColors(RegSources)
    \/ Construct({<<>>, <<Ta>>}, MaxEnvParts)

SpecReg == Init /\ [][NextReg]_vars

----------------------------------------------------------------------------
(* SpecGray: sources with gray and grey names                              *)

GraySources == {DEFAULT_PATH, "gray.ini", "gray7.ini", "both.ini", "dir"}

NextGray ==
    \/ LoadColors(GraySources)
    \/ Construct({<<>>, <<Ta>>}, MaxEnvParts)

SpecGray == Init /\ [][NextGray]_vars

----------------------------------------------------------------------------
(* SpecGet: tint with colours given as strings of every form               *)

ANSI_GREEN == <<ESC, "[", "3", "8", ";", "5", ";", "3", "5", "m">>
ANSI_31 == <<ESC, "[", "3", "1", "m">>

GetStrings ==
    {DEFAULT_NAME, <<"5">>, <<"3", "5">>, ANSI_GREEN, ANSI_31, RED_NAME, SPARKLE_NAME}

NextGet ==
    \/ Tint({StrColor(c) : c \in GetStrings}, {<<Ta>>}, Seps, MaxEnvParts)
    \/ Pop({1}, MaxEnvParts)
    \/ LoadColors({"alt.ini"})

SpecGet == Init /\ [][NextGet]_vars

----------------------------------------------------------------------------
(* SpecUtil: the static utilities on strings with up to MaxCodes escape    *)
(* sequences                                                                *)

MaxCodes == 43
MaxWidth == 5

SGR_BOLD == <<ESC, "[", "1", "m">>
ANSI_RED == <<ESC, "[", "3", "8", ";", "5", ";", "1", "m">>

\* a two-character escape sequence
ESC_A == <<ESC, "A">>

\* n two-character sequences, a text, and a tail with sequences of other shapes
Givens ==
    {Rep(ESC_A, n) \o txt \o tail :
        n \in {0, 1, MaxCodes - 1, MaxCodes},
        txt \in {<<>>, Ta},
        tail \in {<<>>, SGR_BOLD \o Tb, ANSI_RED \o Tb \o ANSI_RESET}}

InitUtil ==
    /\ dict_colors = DefaultColors
    /\ colors_ini = DefaultIni
    /\ ansi = Loaded(DEFAULT_PATH)
    /\ given \in Givens
    /\ parts = <<>>
    /\ styler = DefaultStyler(DefaultColors)
    /\ prefixes = <<>>
    /\ STEALTH = FALSE
    /\ PREFER_PLAINTEXT = FALSE
    /\ out = None
    /\ op = Call("init", 0)
    /\ added = <<>>
    /\ other = init(<<>>, IntColor(0), {}, SEP, DefaultColors).v

NextUtil ==
    \/ StripAnsi
    \/ Ljust({0, 2, MaxWidth}, {<<".">>, <<" ">>})
    \/ Rjust({0, 2, MaxWidth}, {<<".">>, <<" ">>})

SpecUtil == InitUtil /\ [][NextUtil]_vars

----------------------------------------------------------------------------
(* Reading a rendered string *)

\* the piece of to_str's output that part i contributes
Piece(ps, i) ==
    LET t == PartsTuple(ps, i)
    IN  _get_str(FALSE, t.lp, t.p, t.np, None, SMART_FIX_PUNCTUATION)

EscCount(s) == Cardinality({i \in 1..Len(s) : s[i] = ESC})

\* ESC[<codes>m around codes, nothing for no codes
Wrap(codes) == IF codes = <<>> THEN <<>> ELSE <<ESC, "[">> \o codes \o <<"m">>

SameStyle(p, q) ==
    /\ p.styler.color_code = q.styler.color_code
    /\ p.styler.styles = q.styler.styles

\* what to_str emits after the last non-blank character of the text of part i
\* and before the next piece
AfterText(ps, i) ==
    LET t == PartsTuple(ps, i)
        from == Len(Wrap(OnCodes(t.lp, t.p))) + RstripLen(ps[i].s)
    IN  SubSeq(Piece(ps, i), from + 1, Len(Piece(ps, i)))

\* a terminal's state: the foreground colour and the styles switched on
TermReset == [fg |-> 0, styles |-> {}]

\* one SGR sequence: the parameters codes, read from position i
RECURSIVE Sgr(_, _, _)
Sgr(codes, i, st) ==
    IF i > Len(codes) THEN st
    ELSE LET c == codes[i]
         IN  IF c = 0 THEN Sgr(codes, i + 1, TermReset)
             ELSE IF c >= 1 /\ c <= 9
                  THEN Sgr(codes, i + 1,
                           [st EXCEPT !.styles = @ \cup {ANSI_STYLES[c]}])
             ELSE IF c = 22
                  THEN Sgr(codes, i + 1, [st EXCEPT !.styles = @ \ {"bold", "dim"}])
             ELSE IF c = 23
                  THEN Sgr(codes, i + 1, [st EXCEPT !.styles = @ \ {"italic"}])
             ELSE IF c = 24
                  THEN Sgr(codes, i + 1, [st EXCEPT !.styles = @ \ {"underline"}])
             ELSE IF c = 27
                  THEN Sgr(codes, i + 1, [st EXCEPT !.styles = @ \ {"invert"}])
             ELSE IF c = 29
                  THEN Sgr(codes, i + 1,
                           [st EXCEPT !.styles = @ \ {"strikethrough"}])
             ELSE IF c = 38 /\ i + 2 <= Len(codes) /\ codes[i + 1] = 5
                  THEN Sgr(codes, i + 3, [st EXCEPT !.fg = codes[i + 2]])
             ELSE IF c = 39 THEN Sgr(codes, i + 1, [st EXCEPT !.fg = 0])
             ELSE Sgr(codes, i + 1, st)

\* the terminal's state after it has read s from position i in state st
RECURSIVE Terminal(_, _, _)
Terminal(s, i, st) ==
    IF i > Len(s) THEN st
    ELSE IF s[i] = ESC /\ i < Len(s) /\ s[i + 1] = "["
         THEN LET ends == {j \in (i + 2)..Len(s) : s[j] = "m"}
              IN  IF ends = {} THEN st
                  ELSE LET j == CHOOSE k \in ends : \A x \in ends : k <= x
                           fields == StrSplit(SubSeq(s, i + 2, j - 1), ";")
                           codes == [k \in 1..Len(fields) |-> StrInt(fields[k])]
                       IN  Terminal(s, j + 1, Sgr(codes, 1, st))
         ELSE Terminal(s, i + 1, st)

\* the terminal's state while it shows the text of part i of to_str's output:
\* after the pieces of the parts before i and the on code of part i
ShownAt(ps, i) ==
    LET t == PartsTuple(ps, i)
    IN  Terminal(Flatten([k \in 1..(i - 1) |-> Piece(ps, k)])
                     \o Wrap(OnCodes(t.lp, t.p)), 1, TermReset)

----------------------------------------------------------------------------
(* Claims *)

\* C1: between the texts of two consecutive parts that captured the same colour
\* code and the same styles, to_str emits no escape sequence: the first part
\* gets no off code, the second no on code.
C1_NoCodeBetweenEqualStyles ==
    \A i \in 1..(Len(parts) - 1) :
        SameStyle(parts[i], parts[i + 1]) =>
            /\ ESC \notin {AfterText(parts, i)[k] : k \in 1..Len(AfterText(parts, i))}
            /\ OnCodes(Some(parts[i]), parts[i + 1]) = <<>>
            /\ RstripLen(parts[i + 1].s) > 0 => Piece(parts, i + 1)[1] # ESC
            /\ EscCount(Piece(parts, i + 1)) <= 1

\* two bold red parts with text, followed by a third part
C1_Witness ==
    /\ Len(parts) = 3
    /\ SameStyle(parts[1], parts[2])
    /\ parts[1].styler.color_code = 1
    /\ parts[1].styler.styles = {"bold"}
    /\ parts[2].s = Ta
    /\ ~SameStyle(parts[2], parts[3])

\* the rendered string without its trailing whitespace
Rstripped(s) == SubSeq(s, 1, RstripLen(s))

C3_NothingActiveAtEnd ==
    Terminal(Styled(parts), 1, TermReset) = TermReset

\* a bold red part between two others has been rendered
C3_Witness ==
    /\ Len(parts) = 3
    /\ parts[2].styler.color_code = 1
    /\ "bold" \in parts[2].styler.styles
    /\ "dim" \in parts[3].styler.styles
    /\ EscCount(Styled(parts)) >= 3

\* C4: strip_ansi of the formatted rendering is the plaintext rendering, however
\* many parts and codes there are.
C4_StripIsPlaintext ==
    strip_ansi(Styled(parts)) = Plain(parts)

\* C5: a push of one or more values appends one part when the last part has
\* text, and otherwise overwrites the last part (of max(1, count) parts); the
\* last part then holds the joined text, the live styler's colour and styles
\* and the separator, and the parts before it are as they were.
C5_PushAppendsOrOverwrites ==
    [][\A s \in TextVals \ {<<>>}, sep \in TextSeps :
         Returns("push", Len(s), Ok(push(Self, s, sep, dict_colors)), MaxParts) =>
            LET n == Len(parts)
                m == Len(parts')
                sep1 == IF sep = None THEN SEP ELSE sep[1]
            IN  /\ m = IF n > 0 /\ parts[n].s # <<>> THEN n + 1 ELSE Max({1, n})
                /\ parts'[m].s = StrJoin(s, sep1)
                /\ parts'[m].sep = sep1
                /\ parts'[m].styler.color = styler.color
                /\ parts'[m].styler.color_code = styler.color_code
                /\ parts'[m].styler.styles = styler.styles
                /\ \A i \in 1..(m - 1) : parts'[i] = parts[i]
      ]_vars

\* a push has put "ab " in place of the empty text of a second, red part
C5_Witness ==
    /\ op.name = "push"
    /\ Len(parts) = 2
    /\ Len(added) = 2
    /\ parts[2].s = Ta \o Tb
    /\ parts[2].sep = <<>>
    /\ parts[2].styler.color_code = 1

\* C6: a push of no values leaves the parts as they are.
C6_PushNothingIsNoOp ==
    [][(op'.name = "push" /\ op'.arg = 0) => parts' = parts]_vars

\* C7: pop(n) does not raise, removes min(n, count) parts from the tail and
\* leaves the others as they are; the plaintext is then the one rendered before
\* the first removed part was added, and n above the count leaves no part.
C7_PopRemovesTail ==
    [][op'.name = "pop" =>
         LET n == op'.arg
             k == Len(parts) - Min(n, Len(parts))
         IN  /\ op'.exc = ""
             /\ Len(parts') = k
             /\ \A i \in 1..k : parts'[i] = parts[i]
             /\ k < Len(parts) => Plain(parts') = added[k + 1]
             /\ n > Len(parts) => parts' = <<>>
      ]_vars

\* pop has removed parts and left a part whose text is "a b "
C7_Witness ==
    /\ op.name = "pop"
    /\ op.arg = 2
    /\ Len(parts) = 1
    /\ parts[1].s = Ta \o SEP \o Tb

\* C8: after pop, the live styler has the colour name, the colour code and the
\* styles of the last part left, or the default ones when no part is left.
C8_PopRestoresStyle ==
    op.name = "pop" =>
        LET want == IF parts # <<>> THEN parts[Len(parts)].styler
                    ELSE [color |-> DEFAULT_NAME, color_code |-> 0, styles |-> {}]
        IN  /\ styler.color = want.color
            /\ styler.color_code = want.color_code
            /\ styler.styles = want.styles

\* pop has left a bold red part as the last one
C8_Witness ==
    /\ op.name = "pop"
    /\ op.arg = 1
    /\ Len(parts) = 2
    /\ parts[2].styler.color_code = 1
    /\ parts[2].styler.styles = {"bold"}
    /\ parts[1].styler.styles = {}

\* C9: after print, whatever the arguments and the flags, there is no part and
\* the live styler is the default one.
C9_PrintClears ==
    op.name = "print" =>
        /\ parts = <<>>
        /\ styler.color_code = 0
        /\ styler.styles = {}

\* C10: once print has written, the builder is the one Tinta() constructs.
C10_PrintedIsFresh ==
    out # None => Self = init(<<>>, IntColor(0), {}, SEP, dict_colors).v

\* print wrote a formatted composition although TINTA_STEALTH was set
C10_Witness ==
    /\ out # None
    /\ STEALTH
    /\ EscCount(out[1]) >= 2

\* the calls that end in push
PushType ==
    {"push", "tint", "color", "bold", "underline", "strikethrough", "dim",
     "normal", "default", "clear", "nl"}

Text(ps, i, plaintext) ==
    LET t == PartsTuple(ps, i)
    IN  IF plaintext THEN ps[i].s ELSE stylize(ps[i].s, t.lp, t.p, t.np)

\* the cases in which no separator follows the text a before the text b
Suppressed(a, b) ==
    \/ b = <<>>
    \/ a = <<>>
    \/ a[Len(a)] = LF
    \/ b[1] = LF
    \/ b[1] \in {".", ",", ";", ":", "!", "?"} /\ (Len(b) = 1 \/ b[2] = " ")

\* C12: with punctuation fixing on, to_str renders each part but the last as
\* its text followed by nothing in the five cases and by exactly one separator
\* otherwise, in plaintext and in styled rendering alike.
C12_SeparatorRule ==
    \A plaintext \in BOOLEAN :
        to_str(parts, None, plaintext, TRUE) =
            Flatten([i \in 1..Len(parts) |->
                Text(parts, i, plaintext) \o
                    IF i = Len(parts) \/ Suppressed(parts[i].s, parts[i + 1].s)
                    THEN <<>> ELSE parts[i].sep])

\* "a" in red followed by "!": the plaintext is "a!"
C12_Witness ==
    /\ Len(parts) = 2
    /\ parts[1].s = Ta
    /\ parts[1].styler.color_code = 1
    /\ parts[2].s = Tbang
    /\ Plain(parts) = <<"a", "!">>

\* C13: an emitted separator is the sep argument of to_str when one is given,
\* the empty string included, and otherwise the separator of the part before
\* it; nothing follows the text of the last part.
C13_WhichSeparator ==
    \A sep \in SepArgs, plaintext \in BOOLEAN, fix \in BOOLEAN :
        \A i \in 1..Len(parts) :
            LET t == PartsTuple(parts, i)
                piece == _get_str(plaintext, t.lp, t.p, t.np, sep, fix)
                text == Text(parts, i, plaintext)
                chosen == IF sep # None THEN sep[1] ELSE parts[i].sep
            IN  /\ piece \in {text, text \o chosen}
                /\ i = Len(parts) => piece = text
                /\ (i < Len(parts) /\ ~fix) => piece = text \o chosen

\* "a" pushed with "-" and then "a" pushed with the default separator
C13_Witness ==
    /\ Len(parts) = 2
    /\ parts[1].sep = <<"-">>
    /\ parts[2].sep = SEP
    /\ Plain(parts) = <<"a", "-", "a">>
    /\ to_str(parts, Some(<<>>), TRUE, TRUE) = <<"a", "a">>

\* the colour arguments that name no colour of the registry
Unregistered ==
    {c \in Colors : /\ c.isstr
                    /\ ~HasKey(dict_colors, c.s)
                    /\ c.s # DEFAULT_NAME
                    /\ ~is_ansi_str(c.s)}

\* C15: tint with a colour name that the registry does not hold (as keyword, or
\* as first argument followed by a text) raises MissingColorError and leaves
\* the live colour name, colour code and styles and the parts as they were.
C15_MissingColorChangesNothing ==
    [][\A color \in Unregistered, positional \in BOOLEAN, s \in Vals, sep \in Seps :
         (/\ positional => s # <<>>
          /\ Returns("tint", Len(s),
                     tint(Self, color, positional, s, Some(sep), dict_colors),
                     MaxLifeParts))
            => /\ op'.exc = "MissingColorError"
               /\ styler' = styler
               /\ parts' = parts
               /\ prefixes' = prefixes
      ]_vars

\* tint has raised MissingColorError on a builder with a bold red live style
C15_Witness ==
    /\ op.name = "tint"
    /\ op.exc = "MissingColorError"
    /\ parts # <<>>
    /\ styler.color_code = 1
    /\ styler.styles = {"bold"}

\* the texts of the parts
Texts(ps) == [i \in 1..Len(ps) |-> ps[i].s]

\* the forms in which tint takes the colour named c
TintForms(c) == {StrColor(c), IntColor(Lookup(dict_colors, c))}

\* C16: whichever way a registered colour is given with one or more texts (name
\* or code, first argument or keyword, or the colour method), the parts have
\* the same texts and the live styler and the new part the colour's code; tint
\* with the colour as its only argument raises and changes nothing.
C16_TintFormsAgree ==
    [][/\ \A c \in {RED_NAME, GREEN_NAME}, s \in TintVals \ {<<>>}, sep \in Seps :
            (\E name \in {"tint", "color"}, form \in TintForms(c),
                positional \in BOOLEAN :
                    Returns(name, Len(s),
                            tint(Self, form, positional, s, Some(sep), dict_colors),
                            MaxEnvParts))
                => /\ op'.exc = ""
                   /\ styler'.color_code = Lookup(dict_colors, c)
                   /\ parts'[Len(parts')].styler.color_code = Lookup(dict_colors, c)
                   /\ \A form \in TintForms(c), positional \in BOOLEAN :
                        LET r == tint(Self, form, positional, s, Some(sep),
                                      dict_colors)
                        IN  /\ r.exc = ""
                            /\ Texts(r.v.parts) = Texts(parts')
                            /\ r.v.styler.color_code = styler'.color_code
                            /\ r.v.parts[Len(r.v.parts)].styler.color_code
                                 = parts'[Len(parts')].styler.color_code
       /\ \A color \in TintColors, sep \in Seps :
            Returns("tint", 0, tint(Self, color, TRUE, <<>>, Some(sep), dict_colors),
                    MaxEnvParts)
                => /\ op'.exc = "AttributeError"
                   /\ parts' = parts
                   /\ styler' = styler
                   /\ prefixes' = prefixes
      ]_vars

\* "a b " has been added in green (35) after a red part
C16_Witness ==
    /\ op.name = "tint"
    /\ Len(parts) = 2
    /\ parts[1].styler.color_code = 1
    /\ parts[2].s = Ta \o SEP \o Tb
    /\ parts[2].styler.color_code = 35
    /\ styler.color_code = 35

\* the style calls
Toggles == {"bold", "underline", "dim", "strikethrough"}

\* C17: a style call flips its own style in the live styler and leaves the
\* other styles and the colour as they were; the same call again gives the
\* styles back as they were before the first, and they are the styles of the
\* part pushed by the second call.
C17_ToggleFlipsOwnStyle ==
    [][op'.name \in Toggles =>
         /\ styler'.styles = IF op'.name \in styler.styles
                             THEN styler.styles \ {op'.name}
                             ELSE styler.styles \cup {op'.name}
         /\ styler'.color = styler.color
         /\ styler'.color_code = styler.color_code
         /\ parts'[Len(parts')].styler.styles = styler'.styles
         /\ \A s \in Vals :
              LET again == toggle(Self', op'.name, s, Some(SEP), dict_colors)
              IN  /\ again.styler.styles = styler.styles
                  /\ again.parts[Len(again.parts)].styler.styles = styler.styles
      ]_vars

\* bold has been switched off again while underline stayed on, on a red style
C17_Witness ==
    /\ op.name = "bold"
    /\ Len(parts) = 2
    /\ parts[1].styler.styles = {"bold", "underline"}
    /\ parts[2].styler.styles = {"underline"}
    /\ styler.styles = {"underline"}
    /\ styler.color_code = 1

\* the part p captured the colour and the styles of the styler st
Captured(p, st) ==
    /\ p.styler.color = st.color
    /\ p.styler.color_code = st.color_code
    /\ p.styler.styles = st.styles

\* C18: normal empties the live style set and keeps the live colour; clear
\* empties the live style set and sets the live colour to default (0); the last
\* part then has the live style as the call left it.
C18_NormalAndClear ==
    [][/\ op'.name = "normal" =>
            /\ styler'.styles = {}
            /\ styler'.color = styler.color
            /\ styler'.color_code = styler.color_code
            /\ Captured(parts'[Len(parts')], styler')
       /\ op'.name = "clear" =>
            /\ styler'.styles = {}
            /\ styler'.color = DEFAULT_NAME
            /\ styler'.color_code = 0
            /\ Captured(parts'[Len(parts')], styler')
      ]_vars

\* normal has pushed a red part without styles after a bold red one
C18_Witness ==
    /\ op.name = "normal"
    /\ Len(parts) = 2
    /\ parts[1].styler.styles = {"bold"}
    /\ parts[1].styler.color_code = 1
    /\ parts[2].styler.styles = {}
    /\ parts[2].styler.color_code = 1
    /\ parts[2].s = Ta

\* C19: default sets the live colour to default (0) and empties the live style
\* set, so that the part it pushes has no formatting.
C19_DefaultClearsStyles ==
    [][op'.name = "default" =>
         /\ styler'.color_code = 0
         /\ styler'.styles = {}
         /\ ~has_formatting(parts'[Len(parts')])
      ]_vars

\* C14: two builders that received the same texts with the same separators in
\* the same order render the same plaintext, whatever calls carried the texts
\* to the first and whatever style calls without text came in between.
C14_StylingKeepsPlaintext ==
    Plain(parts) = Plain(other.parts)

\* "a" and "!" went to the first builder through styling calls: its second
\* part is bold and coloured, the second builder's parts are unformatted
C14_Witness ==
    /\ Len(parts) = 2
    /\ "bold" \in parts[2].styler.styles
    /\ parts[2].styler.color_code # 0
    /\ Plain(parts) = <<"a", "!">>
    /\ Len(other.parts) = 2
    /\ ~has_formatting(other.parts[2])

\* the calls on the second instance
OtherNames == {"other." \o kind : kind \in Kinds} \cup {"other.pop", "other.print"}

Names(reg) == {reg[i].k : i \in 1..Len(reg)}

\* the options of the source that a path resolves to
SourceOf(path) == _check_path(path).v.opts

\* the other spelling of a name that contains gray or grey
Spellings(name) ==
    (IF Contains(name, GRAY_NAME) THEN {Replace(name, GRAY_NAME, GREY_NAME)} ELSE {})
        \cup
    (IF Contains(name, GREY_NAME) THEN {Replace(name, GREY_NAME, GRAY_NAME)} ELSE {})

\* C21: after a successful load_colors(B) the registered names are the keys of
\* B and their gray/grey spellings, each key of B with the code B gives it; a
\* name that only an earlier source defined is not registered any more.
C21_LoadReplacesMapping ==
    [][(op'.name = "load_colors" /\ op'.exc = "") =>
          LET B == SourceOf(op'.arg)
          IN  /\ Names(dict_colors') =
                    Names(B) \cup UNION {Spellings(k) : k \in Names(B)}
              /\ \A i \in 1..Len(B) : Lookup(dict_colors', B[i].k) = StrInt(B[i].v)
      ]_vars

\* C22: a load that raises (no source at the path, or a value that int()
\* rejects) leaves AnsiColors._dict_colors as it was: the same names with the
\* same codes.
C22_FailedLoadKeepsMapping ==
    [][(op'.name = "load_colors" /\ op'.exc # "") => dict_colors' = dict_colors]_vars

\* a load raised ValueError after the parser had read the source: the parser
\* holds sparkle, the registry does not
C22_Witness ==
    /\ op.name = "load_colors"
    /\ op.exc = "ValueError"
    /\ HasKey(colors_ini, SPARKLE_NAME)
    /\ ~HasKey(dict_colors, SPARKLE_NAME)
    /\ Lookup(dict_colors, RED_NAME) = 1

\* C23: a load of a source with a key that is the name of a builder method
\* raises, and the registry keeps the mapping it had.
C23_ReservedNameRejectedAtLoad ==
    [][(/\ op'.name = "load_colors"
        /\ _check_path(op'.arg).exc = ""
        /\ Names(SourceOf(op'.arg)) \cap BuiltinNames # {})
          => (op'.exc # "" /\ dict_colors' = dict_colors)
      ]_vars

\* C24: every registered name with gray or grey in it has its other spelling
\* registered too, with the same code unless the source that was loaded
\* defines the other spelling itself.
C24_SpellingsPaired ==
    \A i \in 1..Len(dict_colors) :
        \A a \in Spellings(dict_colors[i].k) :
            /\ HasKey(dict_colors, a)
            /\ \/ Lookup(dict_colors, a) = dict_colors[i].v
               \/ a \in Names(SourceOf(ansi.colors_ini_path))

\* the last number of an escape sequence ESC[n;...;nm
TrailingCode(c) ==
    LET s1 == SubSeq(c, 3, Len(c))
        s2 == IF EndsWith(s1, <<"m">>) THEN SubSeq(s1, 1, Len(s1) - 1) ELSE s1
        seg == StrSplit(s2, ";")
    IN  StrInt(seg[Len(seg)])

\* the code that a colour given as a string stands for
Resolved(c, reg) ==
    IF c = DEFAULT_NAME THEN Ok(0)
    ELSE IF IsInt(c) THEN Ok(StrInt(c))
    ELSE IF is_ansi_str(c) THEN Ok(TrailingCode(c))
    ELSE IF HasKey(reg, c) THEN Ok(Lookup(reg, c))
    ELSE Raise("MissingColorError")

\* C25: tint(text, color=c) with a string c sets the live colour code to 0 for
\* 'default', to the number for a string of digits, to the trailing number
\* for an escape sequence and to the registered code for any other string; it
\* raises MissingColorError for a string that is none of these.
C25_ColourResolution ==
    [][\A c \in GetStrings :
         Returns("tint", 1,
                 tint(Self, StrColor(c), FALSE, <<Ta>>, Some(SEP), dict_colors),
                 MaxEnvParts)
            => IF Resolved(c, dict_colors).exc # ""
               THEN op'.exc = "MissingColorError"
               ELSE /\ op'.exc = ""
                    /\ styler'.color_code = Resolved(c, dict_colors).v
      ]_vars

\* s without its escape sequences, however many there are
StripAll(s) == ReSub(s, 1, Len(s))

\* C26: strip_ansi returns its argument with every escape sequence removed
\* and every other character kept in order.
C26_StripRemovesEverySequence ==
    op.name = "strip_ansi" => out = Some(StripAll(given))

\* C27: ljust returns s followed by fill characters, rjust fill characters
\* followed by s, and the result has max(width, visible length of s) visible
\* characters.
C27_JustifyToVisibleWidth ==
    op.name \in {"ljust", "rjust"} =>
        /\ \E k \in 0..op.arg.width :
              out[1] = IF op.name = "ljust"
                       THEN given \o Rep(op.arg.fillchar, k)
                       ELSE Rep(op.arg.fillchar, k) \o given
        /\ Len(StripAll(out[1])) = Max({op.arg.width, Len(StripAll(given))})

\* C28: the builder's has_formatting is True exactly when one of its parts,
\* at any position, has a colour code other than 0 or an active style; it is
\* False for a builder without parts.
C28_AnyPartHasFormatting ==
    Tinta_has_formatting(parts) <=> \E i \in 1..Len(parts) : has_formatting(parts[i])

\* C29: read as a terminal reads it, the output of to_str shows the text of
\* every part in the colour the part captured; in particular a part of colour 0
\* is shown in the default colour, whatever came before it.
C29_ColourFidelity ==
    \A i \in 1..Len(parts) :
        RstripLen(parts[i].s) > 0 =>
            ShownAt(parts, i).fg = parts[i].styler.color_code

\* C30: read as a terminal reads it (22 ends bold and dim, 24 underline,
\* 29 strikethrough, 0 everything), the output of to_str shows the text of
\* every part with exactly the styles the part captured.
C30_StyleFidelity ==
    \A i \in 1..Len(parts) :
        RstripLen(parts[i].s) > 0 =>
            ShownAt(parts, i).styles = parts[i].styler.styles

\* the off codes of the styles that part p has and part q lacks: each once,
\* in ascending order
StylesEnded(p, q) ==
    Sorted({StyleOff(st) : st \in p.styler.styles \ q.styler.styles})

\* the codes a part is expected to emit after its text, np being the next part
\* or None
ExpectedOff(p, np) ==
    IF ~has_formatting(p) THEN <<>>
    ELSE IF \/ np = None
            \/ ~has_formatting(np[1])
            \/ /\ p.styler.styles # {}
               /\ np[1].styler.styles = {}
               /\ p.styler.color_code # np[1].styler.color_code
         THEN <<0>>
    ELSE StylesEnded(p, np[1])

\* codes joined by ';'
Codes(cs) == StrJoin([k \in 1..Len(cs) |-> IntStr(cs[k])], <<";">>)

ExpectedOn(lp, p) ==
    LET fresh == lp = None \/ ~has_formatting(lp[1])
        sts == IF fresh THEN p.styler.styles
               ELSE p.styler.styles \ lp[1].styler.styles
        col == IF /\ p.styler.color_code # 0
                  /\ (lp = None \/ p.styler.color_code # lp[1].styler.color_code)
               THEN <<38, 5, p.styler.color_code>>
               ELSE <<>>
    IN  IF ~has_formatting(p) THEN <<>>
        ELSE Sorted({StyleOn(st) : st \in sts}) \o col

\* C32: the piece to_str renders for a part starts with one sequence ESC[...m
\* holding the expected on codes (the styles the previous part lacks, or all
\* of them after no part or an unformatted one, in the fixed order, then the
\* colour when it is non-zero and new), directly followed by the text; with no
\* code expected the piece starts with the text.
C32_OnCodes ==
    \A i \in 1..Len(parts) :
        LET exp == ExpectedOn(PartsTuple(parts, i).lp, parts[i])
        IN  StartsWith(Piece(parts, i), Wrap(Codes(exp)) \o Rstripped(parts[i].s))

\* a red part with two styles after a formatted part that has one of them
C32_Witness ==
    /\ Len(parts) = 2
    /\ parts[1].styler.styles = {"bold"}
    /\ parts[1].styler.color_code = 0
    /\ parts[2].styler.styles = {"bold", "underline"}
    /\ parts[2].s # <<>>
    /\ ExpectedOn(Some(parts[1]), parts[2]) = <<4, 38, 5, 1>>

\* the whitespace a text ends with
TrailingBlanks(s) == SubSeq(s, RstripLen(s) + 1, Len(s))

\* C33: the piece to_str renders for a part is its on code, its text up to the
\* last non-blank character, its off code, the blanks the text ends with, and
\* then the part's separator or nothing.
C33_CodesAroundText ==
    \A i \in 1..Len(parts) :
        LET t == PartsTuple(parts, i)
            body == Wrap(Codes(ExpectedOn(t.lp, t.p)))
                        \o Rstripped(t.p.s)
                        \o Wrap(Codes(ExpectedOff(t.p, t.np)))
                        \o TrailingBlanks(t.p.s)
        IN  Piece(parts, i) \in {body, body \o t.p.sep}

\* a red part whose text ends with a blank is followed, after its separator,
\* by an unformatted part: on code, text, reset, blank, separator
C33_Witness ==
    /\ Len(parts) >= 2
    /\ parts[1].s = Tb
    /\ parts[1].styler.color_code = 1
    /\ ~has_formatting(parts[2])
    /\ Piece(parts, 1) = Wrap(Codes(<<38, 5, 1>>)) \o <<"b">> \o ANSI_RESET \o <<" ", " ">>

\* C34: a call other than pop and print leaves every part that holds text in
\* its place, with its text, its colour, its styles and its separator.
C34_PartsWithTextAreFrozen ==
    [][op'.name \notin {"pop", "print"} =>
         \A i \in 1..Len(parts) :
             parts[i].s # <<>> =>
                 /\ i <= Len(parts')
                 /\ parts'[i].s = parts[i].s
                 /\ parts'[i].styler.color = parts[i].styler.color
                 /\ parts'[i].styler.color_code = parts[i].styler.color_code
                 /\ parts'[i].styler.styles = parts[i].styler.styles
                 /\ parts'[i].sep = parts[i].sep
      ]_vars

\* after a bold red part with text, normal has appended a part without styles
C34_Witness ==
    /\ op.name = "normal"
    /\ Len(parts) = 2
    /\ parts[1].s = Ta
    /\ parts[1].styler.styles = {"bold"}
    /\ parts[1].styler.color_code = 1
    /\ parts[2].s = Ta
    /\ styler.styles = {}

\* C35: when the builder has parts, the live styler's colour code and styles
\* are those the last part captured.
C35_LiveStyleIsLastCaptured ==
    parts # <<>> =>
        /\ styler.color_code = parts[Len(parts)].styler.color_code
        /\ styler.styles = parts[Len(parts)].styler.styles

\* pop has removed a part after a bold red part, which is now the last, and
\* the live styler is bold red again
C35_Witness ==
    /\ op.name = "pop"
    /\ op.arg = 1
    /\ Len(parts) = 1
    /\ styler.styles = {"bold"}
    /\ styler.color_code = 1

\* C36: every part that is followed by another part has text.
C36_OnlyLastPartEmpty ==
    \A i \in 1..(Len(parts) - 1) : parts[i].s # <<>>

\* a style call without a text has left an empty last part after a part
\* with text
C36_Witness ==
    /\ op.name = "underline"
    /\ op.arg = 0
    /\ Len(parts) = 2
    /\ parts[1].s = Ta
    /\ parts[2].s = <<>>

\* C37: the colour code of the live styler and of every part is in 0..255,
\* and to_str does not raise.
C37_CodesInRange ==
    /\ styler.color_code \in 0..255
    /\ \A i \in 1..Len(parts) : parts[i].styler.color_code \in 0..255
    /\ op.name = "to_str" => op.exc = ""

\* the colour name and the colour code of a styler agree under the registry
Agree(st, reg) ==
    \/ st.color = DEFAULT_NAME /\ st.color_code = 0
    \/ HasKey(reg, st.color) /\ Lookup(reg, st.color) = st.color_code
    \/ /\ st.color = UNDEFINED_NAME
       /\ \A i \in 1..Len(reg) : reg[i].v # st.color_code

\* C38: in the live styler and in the styler of every part, the colour name
\* and the colour code agree under the registry as it is now.
C38_NameAndCodeAgree ==
    /\ Agree(styler, dict_colors)
    /\ \A i \in 1..Len(parts) : Agree(parts[i].styler, dict_colors)

====
